---- MODULE Spec2Model ----
(* A model of remote_file_replicator.py: ReplicatorSource (initial walk,     *)
(* event handler) and ReplicatorTarget (request handler, reconciliation),     *)
(* over a small file-system universe.                                         *)
(*                                                                            *)
(* A name is a sequence of characters, a path is a sequence of names (the     *)
(* way the file system resolves it) and a path string is a sequence of        *)
(* characters (the way the replicator stores and compares it).                *)
EXTENDS Naturals, Sequences, FiniteSets

VARIABLES
    src,      \* the source host's tree below dir_path
    watch_dirs,  \* ReplicatorSource._watch_dirs: path strings
    watch_files, \* ReplicatorSource._watch_files: path strings
    watched,  \* the source file system's watch registry: paths
    queue,    \* events the file system has raised and not yet delivered
    pc,       \* "new" before ReplicatorSource is constructed, then "running"
    sent,     \* the requests the last source handler passed to rpc_handle
    lastev,   \* the event handle_event handled last
    nchg,     \* number of changes made to the source tree
    unreported, \* has a change happened in a directory without a watch
    sentat,   \* _watch_dirs, _watch_files and the watches when rpc_handle was last called
    cleaned,  \* the elements the last handler took out of _watch_dirs
    unwatch_failed, \* did an unwatchdir call of the last handler raise
    noop,     \* did the last handler leave the target's tree as it was
    tgt,      \* the target host's tree below its root
    req,      \* ReplicatorTarget: the request handle_request handled last
    raised,   \* did the last handler call raise to its caller
    wcalls,   \* number of fs.writefile calls the last handle_request made
    nreq,     \* number of requests the target has handled on its own
    prekind,  \* kind of the entry at the request's path before the request
    ndel      \* number of entries the last request deleted

srcvars == <<src, watch_dirs, watch_files, watched, queue, pc, sent, lastev, nchg, unreported,
             sentat, cleaned, unwatch_failed, noop>>
tgtvars == <<req, wcalls, nreq, prekind, ndel>>

vars == <<src, watch_dirs, watch_files, watched, queue, pc, sent, lastev, nchg, unreported,
          sentat, cleaned, unwatch_failed, noop, tgt, req, raised, wcalls, nreq, prekind, ndel>>

\* ---------------------------------------------------------------- universe

MaxContent == 2
MaxRequests == 2
MaxQueue == 2
MaxChanges == 3

Contents == 1..MaxContent

NameA == <<"a">>
NameAB == <<"a", "b">>

Root == <<>>

\* The paths a tree of the model may hold: "a", "ab", "a/a", "ab/a".
Paths == { <<NameA>>, <<NameAB>>, <<NameA, NameA>>, <<NameAB, NameA>> }

\* The absolute path of the source's root directory, "/s".
DirPath == <<"/", "s">>

\* Op at the value of v, with v evaluated once.
With(v, Op(_)) == CHOOSE r \in {Op(x) : x \in {v}} : TRUE

Parent(p) == SubSeq(p, 1, Len(p) - 1)

IsPrefix(p, q) == Len(p) <= Len(q) /\ SubSeq(q, 1, Len(p)) = p

NoEnt == [kind |-> "none", content |-> 0]
DirEnt == [kind |-> "dir", content |-> 0]
FileEnt(c) == [kind |-> "file", content |-> c]

Entries == {NoEnt, DirEnt} \cup {FileEnt(c) : c \in Contents}

\* A tree: every entry that exists lies in a directory that exists.
ValidTree(t) ==
    \A p \in Paths : (t[p] # NoEnt /\ Len(p) > 1) => t[Parent(p)] = DirEnt

Trees == {t \in [Paths -> Entries] : ValidTree(t)}

EmptyTree == [p \in Paths |-> NoEnt]

\* ------------------------------------------------------------ path strings

\* posixpath.join of the names of a path: "a/ab" for <<"a", "ab">>.
RECURSIVE JoinNames(_)
JoinNames(p) ==
    IF Len(p) = 0 THEN <<>>
    ELSE IF Len(p) = 1 THEN p[1]
    ELSE p[1] \o <<"/">> \o JoinNames(Tail(p))

\* posixpath.relpath(path, dir_path) for a path at or below dir_path.
RelPath(p) == IF p = Root THEN <<".">> ELSE JoinNames(p)

\* str.startswith
StartsWith(s, prefix) ==
    Len(prefix) <= Len(s) /\ SubSeq(s, 1, Len(prefix)) = prefix

\* The components of a path string, as the file system resolves
\* posixpath.join(dir_path, relative_path): split at "/", dropping empty
\* components and ".".
RECURSIVE SplitFrom(_, _, _)
SplitFrom(s, i, cur) ==
    LET flush == IF cur = <<>> \/ cur = <<".">> THEN <<>> ELSE <<cur>>
    IN  IF i > Len(s) THEN flush
        ELSE IF s[i] = "/" THEN flush \o SplitFrom(s, i + 1, <<>>)
        ELSE SplitFrom(s, i + 1, Append(cur, s[i]))

TargetPath(rel) == SplitFrom(rel, 1, <<>>)

RelStrings == {RelPath(p) : p \in Paths}

\* ------------------------------------------------------------- file system

Exists(t, p) == p = Root \/ (p \in Paths /\ t[p] # NoEnt)

IsDir(t, p) == p = Root \/ (p \in Paths /\ t[p] = DirEnt)

IsFile(t, p) == p \in Paths /\ t[p].kind = "file"

ListDir(t, p) == {q \in Paths : Parent(q) = p /\ t[q] # NoEnt}

Ok(t) == [t |-> t, err |-> FALSE]
Err(t) == [t |-> t, err |-> TRUE]

\* removedir is recursive.
RemoveDir(t, p) ==
    IF IsDir(t, p) /\ p # Root
    THEN Ok([q \in Paths |-> IF IsPrefix(p, q) THEN NoEnt ELSE t[q]])
    ELSE Err(t)

RemoveFile(t, p) ==
    IF IsFile(t, p) THEN Ok([t EXCEPT ![p] = NoEnt]) ELSE Err(t)

\* makedirs creates the missing ancestors; it fails when the path exists or
\* an ancestor is a file.
MakeDirs(t, p) ==
    IF p \notin Paths \/ Exists(t, p)
       \/ \E q \in Paths : IsPrefix(q, p) /\ IsFile(t, q)
    THEN Err(t)
    ELSE Ok([q \in Paths |-> IF IsPrefix(q, p) THEN DirEnt ELSE t[q]])

\* writefile fails when the parent is no directory or the path is one.
WriteFile(t, p, c) ==
    IF p \in Paths /\ IsDir(t, Parent(p)) /\ ~IsDir(t, p)
    THEN Ok([t EXCEPT ![p] = FileEnt(c)])
    ELSE Err(t)

ReadFile(t, p) == t[p].content

\* ------------------------------------------------------- ReplicatorTarget

WriteReq(rel, c) ==
    [action |-> "write", relative_path |-> rel, content |-> c, dirs |-> {}, files |-> {}]
MkDirReq(rel) ==
    [action |-> "mkdir", relative_path |-> rel, content |-> 0, dirs |-> {}, files |-> {}]
RemoveReq(rel) ==
    [action |-> "remove", relative_path |-> rel, content |-> 0, dirs |-> {}, files |-> {}]
SyncReq(dirs, files) ==
    [action |-> "sync", relative_path |-> <<>>, content |-> 0, dirs |-> dirs, files |-> files]
NoReq ==
    [action |-> "none", relative_path |-> <<>>, content |-> 0, dirs |-> {}, files |-> {}]

Res(t, err, w) == [t |-> t, err |-> err, w |-> w]

HandleWrite(t, r) ==
    LET p == TargetPath(r.relative_path)
    IN  With(IF ~Exists(t, Parent(p)) THEN MakeDirs(t, Parent(p)) ELSE Ok(t), LAMBDA m :
            IF m.err THEN Res(m.t, TRUE, 0)
            ELSE With(IF IsDir(m.t, p) THEN RemoveDir(m.t, p).t ELSE m.t, LAMBDA t2 :
                     IF ~Exists(t2, p) \/ ReadFile(t2, p) # r.content
                     THEN With(WriteFile(t2, p, r.content), LAMBDA w : Res(w.t, w.err, 1))
                     ELSE Res(t2, FALSE, 0)))

HandleMkDir(t, r) ==
    LET p == TargetPath(r.relative_path)
    IN  With(IF ~IsDir(t, p) THEN RemoveFile(t, p).t ELSE t, LAMBDA t1 :
            IF ~Exists(t1, p)
            THEN With(MakeDirs(t1, p), LAMBDA m : Res(m.t, m.err, 0))
            ELSE Res(t1, FALSE, 0))

\* A handler that removes files only.
HandleRemove_FilesOnly(t, r) ==
    LET p == TargetPath(r.relative_path)
    IN  IF Exists(t, p)
        THEN Res(RemoveFile(t, p).t, RemoveFile(t, p).err, 0)
        ELSE Res(t, FALSE, 0)

HandleRemove(t, r) ==
    LET p == TargetPath(r.relative_path)
    IN  IF Exists(t, p)
        THEN IF IsDir(t, p) THEN Res(RemoveDir(t, p).t, RemoveDir(t, p).err, 0)
             ELSE Res(RemoveFile(t, p).t, RemoveFile(t, p).err, 0)
        ELSE Res(t, FALSE, 0)

\* _sync_directory: the loop over listdir(current_path), one item at a time.
RECURSIVE SyncItems(_, _, _, _)
RECURSIVE SyncDirectory(_, _, _, _)

\* A loop that leaves every file alone.
SyncItems_KeepFiles(tree, items, dirs, files) ==
    With(tree, LAMBDA t :
        IF items = {} THEN t
        ELSE LET item == CHOOSE q \in items : TRUE
                 rel == RelPath(item)
                 t1 == IF IsDir(t, item)
                       THEN IF rel \notin dirs THEN RemoveDir(t, item).t
                            ELSE SyncDirectory(t, item, dirs, files)
                       ELSE t
             IN  SyncItems(t1, items \ {item}, dirs, files))

\* A loop that looks a file up in dirs.
SyncItems_FilesInDirs(tree, items, dirs, files) ==
    With(tree, LAMBDA t :
        IF items = {} THEN t
        ELSE LET item == CHOOSE q \in items : TRUE
                 rel == RelPath(item)
                 t1 == IF IsDir(t, item)
                       THEN IF rel \notin dirs THEN RemoveDir(t, item).t
                            ELSE SyncDirectory(t, item, dirs, files)
                       ELSE IF rel \notin dirs THEN RemoveFile(t, item).t
                            ELSE t
             IN  SyncItems(t1, items \ {item}, dirs, files))

SyncItems(tree, items, dirs, files) ==
    With(tree, LAMBDA t :
        IF items = {} THEN t
        ELSE LET item == CHOOSE q \in items : TRUE
                 rel == RelPath(item)
                 t1 == IF IsDir(t, item)
                       THEN IF rel \notin dirs THEN RemoveDir(t, item).t
                            ELSE SyncDirectory(t, item, dirs, files)
                       ELSE IF rel \notin files THEN RemoveFile(t, item).t
                            ELSE t
             IN  SyncItems(t1, items \ {item}, dirs, files))

SyncDirectory(tree, current, dirs, files) ==
    With(tree, LAMBDA t : SyncItems(t, ListDir(t, current), dirs, files))

HandleSync(t, r) == Res(SyncDirectory(t, Root, r.dirs, r.files), FALSE, 0)

\* ReplicatorTarget.handle_request
HandleRequest(t, r) ==
    IF r.action = "write" THEN HandleWrite(t, r)
    ELSE IF r.action = "mkdir" THEN HandleMkDir(t, r)
    ELSE IF r.action = "remove" THEN HandleRemove(t, r)
    ELSE IF r.action = "sync" THEN HandleSync(t, r)
    ELSE Res(t, FALSE, 0)

\* ------------------------------------------------------- ReplicatorSource

ParentDirs == {Parent(p) : p \in Paths}

ChildNames(p) == {q[Len(q)] : q \in {x \in Paths : Parent(x) = p}}

Perms(names) ==
    {o \in [1..Cardinality(names) -> names] :
        \A i, j \in 1..Cardinality(names) : o[i] = o[j] => i = j}

\* The orders listdir may return the entries of each directory in.
Orders == {ord \in [ParentDirs -> UNION {Perms(ChildNames(p)) : p \in ParentDirs}] :
              \A p \in ParentDirs : ord[p] \in Perms(ChildNames(p))}

\* fs.listdir(p): the entries of p, in the order ord gives them.
ListDirSeq(t, p, ord) ==
    IF p \notin ParentDirs THEN <<>>
    ELSE LET all == [i \in 1..Len(ord[p]) |-> Append(p, ord[p][i])]
             there(q) == q \in Paths /\ t[q] # NoEnt
         IN  SelectSeq(all, there)

\* The source while a handler runs: its sets, the watch registry, the target
\* behind rpc_handle, the requests passed so far, and whether a call raised.
Sets(d, f, w) == [dirs |-> d, files |-> f, watched |-> w]

SourceState(t, d, f, w) ==
    [tgt |-> t, dirs |-> d, files |-> f, watched |-> w, sent |-> <<>>, err |-> FALSE,
     at |-> Sets({}, {}, {})]

\* self._rpc_handle(request): the target handles the request before the
\* call returns; what it raises, the call raises.
Send(S, r) ==
    With(S, LAMBDA s :
        IF s.err THEN s
        ELSE With(HandleRequest(s.tgt, r), LAMBDA res :
                 [s EXCEPT !.tgt = res.t, !.sent = Append(@, r), !.err = res.err,
                           !.at = Sets(s.dirs, s.files, s.watched)]))

\* _replicate_directory: the loop over listdir(current_path).
RECURSIVE ReplicateItems(_, _, _, _)
RECURSIVE ReplicateDirectory(_, _, _, _)

\* A loop that sends the mkdir of a directory after walking it.
ReplicateItems_MkDirLast(S, fs, items, ord) ==
    With(S, LAMBDA s :
        IF items = <<>> \/ s.err THEN s
        ELSE LET item == Head(items)
                 rel == RelPath(item)
                 S1 == IF IsDir(fs, item)
                       THEN Send(ReplicateDirectory(
                                     [s EXCEPT !.dirs = @ \cup {rel},
                                               !.watched = @ \cup {item}],
                                     fs, item, ord),
                                 MkDirReq(rel))
                       ELSE With(Send(s, WriteReq(rel, ReadFile(fs, item))), LAMBDA a :
                                IF a.err THEN a ELSE [a EXCEPT !.files = @ \cup {rel}])
             IN  ReplicateItems(S1, fs, Tail(items), ord))

\* A loop that does not walk into the directories it finds.
ReplicateItems_NoRecurse(S, fs, items, ord) ==
    With(S, LAMBDA s :
        IF items = <<>> \/ s.err THEN s
        ELSE LET item == Head(items)
                 rel == RelPath(item)
                 S1 == IF IsDir(fs, item)
                       THEN With(Send(s, MkDirReq(rel)), LAMBDA a :
                                IF a.err THEN a
                                ELSE [a EXCEPT !.dirs = @ \cup {rel},
                                               !.watched = @ \cup {item}])
                       ELSE With(Send(s, WriteReq(rel, ReadFile(fs, item))), LAMBDA a :
                                IF a.err THEN a ELSE [a EXCEPT !.files = @ \cup {rel}])
             IN  ReplicateItems(S1, fs, Tail(items), ord))

ReplicateItems(S, fs, items, ord) ==
    With(S, LAMBDA s :
        IF items = <<>> \/ s.err THEN s
        ELSE LET item == Head(items)
                 rel == RelPath(item)
                 S1 == IF IsDir(fs, item)
                       THEN ReplicateDirectory(
                                With(Send(s, MkDirReq(rel)), LAMBDA a :
                                    IF a.err THEN a
                                    ELSE [a EXCEPT !.dirs = @ \cup {rel},
                                                   !.watched = @ \cup {item}]),
                                fs, item, ord)
                       ELSE With(Send(s, WriteReq(rel, ReadFile(fs, item))), LAMBDA a :
                                IF a.err THEN a ELSE [a EXCEPT !.files = @ \cup {rel}])
             IN  ReplicateItems(S1, fs, Tail(items), ord))

ReplicateDirectory(S, fs, current, ord) ==
    With(S, LAMBDA s :
        IF s.err THEN s ELSE ReplicateItems(s, fs, ListDirSeq(fs, current, ord), ord))

\* ReplicatorSource.__init__
Construction(fs, t, ord) ==
    With(ReplicateDirectory(SourceState(t, {DirPath}, {}, {Root}), fs, Root, ord),
         LAMBDA S1 : Send(S1, SyncReq(S1.dirs, S1.files)))

\* The path posixpath.join(dir_path, path) names, for an element of
\* _watch_dirs: an absolute element replaces dir_path.
WatchPath(s) == IF s = DirPath THEN Root ELSE TargetPath(s)

\* handle_event, FILE_OR_SUBDIR_ADDED
HandleAdded(S, fs, path, ord) ==
    LET rel == RelPath(path)
        sentReq ==
            IF IsDir(fs, path)
            THEN Send(ReplicateDirectory(
                          [S EXCEPT !.dirs = @ \cup {rel}, !.watched = @ \cup {path}],
                          fs, path, ord),
                      MkDirReq(rel))
            ELSE IF IsFile(fs, path)
            THEN Send(S, WriteReq(rel, ReadFile(fs, path)))
            ELSE [S EXCEPT !.err = TRUE]
    IN  With(sentReq, LAMBDA a :
            IF a.err THEN a ELSE [a EXCEPT !.files = @ \cup {rel}])

\* A handler that passes no write when the target already holds the content.
HandleModified_IfChanged(S, fs, path) ==
    IF IsFile(fs, path)
    THEN IF S.tgt[path] = fs[path] THEN S
         ELSE Send(S, WriteReq(RelPath(path), ReadFile(fs, path)))
    ELSE [S EXCEPT !.err = TRUE]

\* handle_event, FILE_MODIFIED
HandleModified(S, fs, path) ==
    IF IsFile(fs, path)
    THEN Send(S, WriteReq(RelPath(path), ReadFile(fs, path)))
    ELSE [S EXCEPT !.err = TRUE]

\* A handler that cleans its sets up and sends nothing.
HandleRemoved_NoSend(S, path) ==
    LET rel == RelPath(path)
        remove_paths == {d \in S.dirs : StartsWith(d, rel)}
    IN  [S EXCEPT !.watched = @ \ {WatchPath(d) : d \in remove_paths},
                  !.dirs = @ \ remove_paths,
                  !.files = @ \ {rel}]

\* A handler that takes only the removed path itself out of _watch_dirs.
HandleRemoved_ExactDir(S, path) ==
    LET rel == RelPath(path)
        remove_paths == {d \in S.dirs : d = rel}
        a == [S EXCEPT !.watched = @ \ {WatchPath(d) : d \in remove_paths},
                       !.dirs = @ \ remove_paths,
                       !.files = @ \ {rel}]
    IN  Send(a, RemoveReq(rel))

\* A handler that passes the remove request first and cleans up after.
HandleRemoved_SendFirst(S, path) ==
    LET rel == RelPath(path)
        remove_paths == {d \in S.dirs : StartsWith(d, rel)}
    IN  With(Send(S, RemoveReq(rel)), LAMBDA a :
            IF a.err THEN a
            ELSE [a EXCEPT !.watched = @ \ {WatchPath(d) : d \in remove_paths},
                           !.dirs = @ \ remove_paths,
                           !.files = @ \ {rel}])

\* handle_event, FILE_OR_SUBDIR_REMOVED
HandleRemoved(S, path) ==
    LET rel == RelPath(path)
        remove_paths == {d \in S.dirs : StartsWith(d, rel)}
        a == [S EXCEPT !.watched = @ \ {WatchPath(d) : d \in remove_paths},
                       !.dirs = @ \ remove_paths,
                       !.files = @ \ {rel}]
    IN  Send(a, RemoveReq(rel))

\* ReplicatorSource.handle_event
HandleEventOp(S, fs, ev, ord) ==
    IF ev.type = "added" THEN HandleAdded(S, fs, ev.path, ord)
    ELSE IF ev.type = "modified" THEN HandleModified(S, fs, ev.path)
    ELSE HandleRemoved(S, ev.path)

\* ---------------------------------------------------- the running system

Event(type, path) == [type |-> type, path |-> path]

NoEvent == Event("none", Root)

Init ==
    /\ src \in Trees
    /\ tgt \in Trees
    /\ watch_dirs = {}
    /\ watch_files = {}
    /\ watched = {}
    /\ queue = <<>>
    /\ pc = "new"
    /\ sent = <<>>
    /\ lastev = NoEvent
    /\ nchg = 0
    /\ unreported = FALSE
    /\ sentat = Sets({}, {}, {})
    /\ cleaned = {}
    /\ unwatch_failed = FALSE
    /\ noop = FALSE
    /\ req = NoReq
    /\ raised = FALSE
    /\ wcalls = 0
    /\ nreq = 0
    /\ prekind = "none"
    /\ ndel = 0

Install(S) ==
    /\ tgt' = S.tgt
    /\ watch_dirs' = S.dirs
    /\ watch_files' = S.files
    /\ watched' = S.watched
    /\ sent' = S.sent
    /\ raised' = S.err
    /\ sentat' = S.at
    /\ cleaned' = watch_dirs \ S.dirs
    /\ unwatch_failed' = (\E d \in watch_dirs \ S.dirs : WatchPath(d) \notin watched)
    /\ noop' = (S.tgt = tgt)

\* ReplicatorSource(fs, dir_path, target.handle_request)
Construct ==
    /\ pc = "new"
    /\ \E ord \in Orders : \E S \in {Construction(src, tgt, ord)} : Install(S)
    /\ pc' = "running"
    /\ UNCHANGED <<src, queue, lastev, nchg, unreported>>
    /\ UNCHANGED tgtvars

\* The file system hands the oldest pending event to handle_event.
HandleEvent ==
    /\ pc = "running"
    /\ queue # <<>>
    /\ \E ord \in Orders :
          \E S \in {HandleEventOp(SourceState(tgt, watch_dirs, watch_files, watched),
                                  src, Head(queue), ord)} : Install(S)
    /\ queue' = Tail(queue)
    /\ lastev' = Head(queue)
    /\ UNCHANGED <<src, pc, nchg, unreported>>
    /\ UNCHANGED tgtvars

\* A change to the source tree at path p: the file system raises an event
\* when the directory holding p is watched.
Change(t, type, p, w) ==
    /\ nchg < MaxChanges
    /\ pc = "running"
    /\ Parent(p) \in watched => Len(queue) < MaxQueue
    /\ src' = t
    /\ queue' = IF Parent(p) \in watched THEN Append(queue, Event(type, p)) ELSE queue
    /\ unreported' = (unreported \/ Parent(p) \notin watched)
    /\ watched' = w
    /\ nchg' = nchg + 1
    /\ UNCHANGED <<watch_dirs, watch_files, pc, sent, lastev, tgt, raised>>
    /\ UNCHANGED <<sentat, cleaned, unwatch_failed, noop>>
    /\ UNCHANGED tgtvars

CanCreate(p) == ~Exists(src, p) /\ IsDir(src, Parent(p))

CreateFile ==
    \E p \in Paths, c \in Contents :
        /\ CanCreate(p)
        /\ Change([src EXCEPT ![p] = FileEnt(c)], "added", p, watched)

CreateDir ==
    \E p \in Paths :
        /\ CanCreate(p)
        /\ Change([src EXCEPT ![p] = DirEnt], "added", p, watched)

ModifyFile ==
    \E p \in Paths, c \in Contents :
        /\ IsFile(src, p)
        /\ Change([src EXCEPT ![p] = FileEnt(c)], "modified", p, watched)

\* Removing a file, or a directory with all beneath it; the watches of the
\* directories that go are gone with them.
RemoveEntry ==
    \E p \in Paths :
        /\ Exists(src, p)
        /\ Change([q \in Paths |-> IF IsPrefix(p, q) THEN NoEnt ELSE src[q]],
                  "removed", p, {q \in watched : ~IsPrefix(p, q)})

Next ==
    \/ Construct
    \/ HandleEvent
    \/ CreateFile
    \/ CreateDir
    \/ ModifyFile
    \/ RemoveEntry

Spec == Init /\ [][Next]_vars

\* ----------------------------------------------- the target on its own

\* Any request over the path strings; a sync advertises the source's root
\* entry with its directories.
Requests ==
    {WriteReq(rel, c) : rel \in RelStrings, c \in Contents}
    \cup {MkDirReq(rel) : rel \in RelStrings}
    \cup {RemoveReq(rel) : rel \in RelStrings}
    \cup {SyncReq(d \cup {DirPath}, f) : d \in SUBSET RelStrings, f \in SUBSET RelStrings}

InitTarget ==
    /\ tgt \in Trees
    /\ src = EmptyTree
    /\ watch_dirs = {}
    /\ watch_files = {}
    /\ watched = {}
    /\ queue = <<>>
    /\ pc = "target"
    /\ sent = <<>>
    /\ lastev = NoEvent
    /\ nchg = 0
    /\ unreported = FALSE
    /\ sentat = Sets({}, {}, {})
    /\ cleaned = {}
    /\ unwatch_failed = FALSE
    /\ noop = FALSE
    /\ req = NoReq
    /\ raised = FALSE
    /\ wcalls = 0
    /\ nreq = 0
    /\ prekind = "none"
    /\ ndel = 0

KindAt(t, p) == IF p = Root THEN "dir" ELSE t[p].kind

Deleted(t, u) == {p \in Paths : t[p] # NoEnt /\ u[p] = NoEnt}

Apply(r) ==
    \E res \in {HandleRequest(tgt, r)} :
        /\ tgt' = res.t
        /\ req' = r
        /\ raised' = res.err
        /\ wcalls' = res.w
        /\ nreq' = nreq + 1
        /\ prekind' = KindAt(tgt, TargetPath(r.relative_path))
        /\ ndel' = Cardinality(Deleted(tgt, res.t))
        /\ UNCHANGED srcvars

\* Any request, to any tree.
Request == nreq = 0 /\ \E r \in Requests : Apply(r)

\* The same request again.
Repeat == nreq > 0 /\ nreq < MaxRequests /\ Apply(req)

NextTarget == Request \/ Repeat

SpecTarget == InitTarget /\ [][NextTarget]_vars

\* ------------------------------------------------------------------ claims

ReqPath == TargetPath(req.relative_path)
ReqPathNext == TargetPath(req'.relative_path)

Handled == nreq' = nreq + 1

\* The directories and files present at or below the target root, as path
\* strings relative to it; the root itself is the empty string.
TargetDirStrings(t) == {<<>>} \cup {RelPath(p) : p \in {q \in Paths : IsDir(t, q)}}
TargetFileStrings(t) == {RelPath(p) : p \in {q \in Paths : IsFile(t, q)}}

Constructed == pc = "running" /\ nchg = 0

\* C1 (as claimed): once construction has finished, the directories and the
\* files present under the target root are exactly the source's dirs and
\* files sets.
C1_MirrorEquivalence ==
    Constructed =>
        /\ TargetDirStrings(tgt) = watch_dirs
        /\ TargetFileStrings(tgt) = watch_files

\* C2: when every change to the source tree has been reported and every
\* event handled, the target's tree (directories, files, contents) is the
\* source's tree.
C2_ContinuousMirroring ==
    (pc = "running" /\ queue = <<>> /\ ~unreported) => tgt = src

C2_Witness ==
    /\ pc = "running"
    /\ queue = <<>>
    /\ ~unreported
    /\ nchg >= 3
    /\ lastev.type = "removed"
    /\ tgt = src
    /\ \E p \in Paths : Len(p) > 1 /\ IsFile(src, p)

IndexOf(seq, r) == {i \in 1..Len(seq) : seq[i] = r}

IsUnder(p, q) == IsPrefix(p, q) /\ p # q

\* C3 (as claimed): when handle_event handles an Added event for a directory
\* holding a file, the mkdir of the directory is passed to the target before
\* the write of the file.
C3_MkDirBeforeWrite ==
    (pc = "running" /\ lastev.type = "added") =>
        \A j \in 1..Len(sent) :
            (sent[j].action = "write"
                /\ IsUnder(lastev.path, TargetPath(sent[j].relative_path)))
              => \E i \in 1..(j - 1) : sent[i] = MkDirReq(RelPath(lastev.path))

RequestsFor(q) ==
    {i \in 1..Len(sent) :
        sent[i].action \in {"mkdir", "write"} /\ sent[i].relative_path = RelPath(q)}

\* C4: in the requests of the construction, the mkdir of every directory
\* below the root comes before the mkdir or write of every entry nested
\* under it, and the sync comes after all of them.
C4_InitialWalkOrder ==
    Constructed =>
        /\ Len(sent) > 0
        /\ sent[Len(sent)].action = "sync"
        /\ \A i \in 1..(Len(sent) - 1) : sent[i].action \in {"mkdir", "write"}
        /\ \A d \in Paths, q \in Paths :
              (IsDir(src, d) /\ IsUnder(d, q) /\ Exists(src, q)) =>
                  /\ IndexOf(sent, MkDirReq(RelPath(d))) # {}
                  /\ RequestsFor(q) # {}
                  /\ \A i \in IndexOf(sent, MkDirReq(RelPath(d))), j \in RequestsFor(q) :
                        i < j

C4_Witness ==
    /\ Constructed
    /\ Len(sent) = 5
    /\ IsFile(src, <<NameA, NameA>>)
    /\ IsDir(src, <<NameAB, NameA>>)
    /\ sent[1] = MkDirReq(RelPath(<<NameAB>>))

\* C5 (as claimed): after handle_request applies a write of content c to
\* path p, p is a file on the target whose content is c.
C5_WritePostcondition ==
    (nreq > 0 /\ req.action = "write")
        => (IsFile(tgt, ReqPath) /\ ReadFile(tgt, ReqPath) = req.content)

\* C6 (as claimed): after handle_request applies a mkdir of path p, p is a
\* directory on the target.
C6_MkDirPostcondition ==
    (nreq > 0 /\ req.action = "mkdir") => IsDir(tgt, ReqPath)

\* C7: after a remove of p, p and everything beneath it is gone and nothing
\* else changed; the request never raises; when p was absent the tree is
\* unchanged, and so is it when the same remove is applied again.
C7_RemoveIdempotent ==
    [][(Handled /\ req'.action = "remove") =>
        /\ ~raised'
        /\ \A q \in Paths :
              tgt'[q] = IF IsPrefix(ReqPathNext, q) THEN NoEnt ELSE tgt[q]
        /\ (~Exists(tgt, ReqPathNext) => tgt' = tgt)
        /\ (req = req' => tgt' = tgt)]_vars

C7_Witness ==
    /\ nreq = MaxRequests
    /\ req.action = "remove"
    /\ req.relative_path = RelPath(<<NameA>>)
    /\ prekind = "none"
    /\ tgt[<<NameAB>>] = DirEnt
    /\ tgt[<<NameAB, NameA>>] # NoEnt

\* C8: after a sync, every directory below the target root is in the
\* advertised dirs and every file below it is in the advertised files.
C8_SyncDeletesOrphans ==
    (nreq > 0 /\ req.action = "sync") =>
        \A p \in Paths :
            /\ IsDir(tgt, p) => RelPath(p) \in req.dirs
            /\ IsFile(tgt, p) => RelPath(p) \in req.files

C8_Witness ==
    /\ nreq = 1
    /\ req.action = "sync"
    /\ ndel > 1
    /\ \E p \in Paths : IsFile(tgt, p) /\ Len(p) > 1

AncestorsIn(p, dirs) ==
    \A q \in Paths : (IsPrefix(q, p) /\ q # p) => RelPath(q) \in dirs

\* C9 (as claimed): a sync creates nothing and changes no content, and every
\* directory in the advertised dirs and every file in the advertised files
\* is still there afterwards.
C9_SyncKeepsAdvertised ==
    [][(Handled /\ req'.action = "sync") =>
        \A p \in Paths :
            /\ tgt'[p] # NoEnt => tgt'[p] = tgt[p]
            /\ (IsDir(tgt, p) /\ RelPath(p) \in req'.dirs) => IsDir(tgt', p)
            /\ (IsFile(tgt, p) /\ RelPath(p) \in req'.files) => tgt'[p] = tgt[p]]_vars

\* C9 (amended): a sync creates nothing and changes no content, and every
\* directory in the advertised dirs and every file in the advertised files,
\* all of whose ancestors are in the advertised dirs, is still there.
C9_SyncOnlyDeletes ==
    [][(Handled /\ req'.action = "sync") =>
        \A p \in Paths :
            /\ tgt'[p] # NoEnt => tgt'[p] = tgt[p]
            /\ (IsDir(tgt, p) /\ RelPath(p) \in req'.dirs /\ AncestorsIn(p, req'.dirs))
                  => IsDir(tgt', p)
            /\ (IsFile(tgt, p) /\ RelPath(p) \in req'.files /\ AncestorsIn(p, req'.dirs))
                  => tgt'[p] = tgt[p]]_vars

C9_Witness ==
    /\ nreq = 1
    /\ req.action = "sync"
    /\ ndel > 0
    /\ \E p \in Paths :
          /\ Len(p) > 1
          /\ IsFile(tgt, p)
          /\ RelPath(p) \in req.files
          /\ AncestorsIn(p, req.dirs)

\* C10 (as claimed): the same write applied twice in a row makes at most one
\* writefile call; the second application makes none and leaves the target
\* unchanged.
C10_IdempotentWrite ==
    [][(Handled /\ req'.action = "write" /\ req = req') =>
        (wcalls' = 0 /\ tgt' = tgt)]_vars

\* handle_event returns from handling the oldest pending event, of this type.
HandledEv(type) ==
    /\ pc = "running"
    /\ queue # <<>>
    /\ queue' = Tail(queue)
    /\ Head(queue).type = type

EvPath == Head(queue).path
EvRel == RelPath(Head(queue).path)

\* C11 (as claimed): after handle_event has handled a Removed event for a
\* directory in dirs, no path below that directory is left in files.
C11_RemovalCascadeFiles ==
    [][(HandledEv("removed") /\ EvRel \in watch_dirs) =>
        \A f \in watch_files' : ~IsUnder(EvPath, TargetPath(f))]_vars

\* C12: after handle_event has handled a Removed event for path p, neither p
\* nor a directory below p is left in dirs, none of them has a watch, and the
\* handler has gone on to pass its remove request and returned without
\* raising, whether or not an unwatchdir call failed.
C12_RemovalCascadeDirs ==
    [][HandledEv("removed") =>
        /\ \A d \in watch_dirs' : ~IsPrefix(EvPath, WatchPath(d))
        /\ \A d \in watch_dirs :
              IsPrefix(EvPath, WatchPath(d)) => WatchPath(d) \notin watched'
        /\ sent' = <<RemoveReq(EvRel)>>
        /\ ~raised']_vars

\* A Removed event for a directory took it and a directory below it out of
\* dirs, with an unwatchdir call that failed.
C12_Witness ==
    /\ lastev.type = "removed"
    /\ RelPath(lastev.path) \in cleaned
    /\ \E d \in cleaned : IsUnder(lastev.path, WatchPath(d))
    /\ unwatch_failed
    /\ ~raised

\* C13 (as claimed): once the source is constructed, in every state, every
\* directory above a path in files is in dirs.
C13_WatchedTree ==
    pc = "running" =>
        \A f \in watch_files : \A q \in Paths :
            IsUnder(q, TargetPath(f)) => RelPath(q) \in watch_dirs

\* C14 (as claimed): once the source is constructed, dirs holds the root as
\* the empty path string and no absolute path, and so does the dirs field
\* of the sync request of the construction.
C14_RootAsEmptyPath ==
    /\ pc = "running" =>
          /\ <<>> \in watch_dirs
          /\ \A d \in watch_dirs : d = <<>> \/ d[1] # "/"
    /\ Constructed =>
          /\ <<>> \in sent[Len(sent)].dirs
          /\ \A d \in sent[Len(sent)].dirs : d = <<>> \/ d[1] # "/"

\* C15 (as claimed): handling an Added event for a path that is no longer
\* there passes no request, does not raise, and leaves dirs and files as
\* they were.
C15_AddedButVanished ==
    [][(HandledEv("added") /\ ~Exists(src, EvPath)) =>
        /\ sent' = <<>>
        /\ ~raised'
        /\ watch_dirs' = watch_dirs
        /\ watch_files' = watch_files]_vars

\* C16 (as claimed): handling a Removed event for path p leaves in dirs, and
\* with its watch if it had one, every directory that is neither p nor below
\* p.
C16_SegmentPrefix ==
    [][HandledEv("removed") =>
        \A d \in watch_dirs :
            ~IsPrefix(EvPath, WatchPath(d)) =>
                /\ d \in watch_dirs'
                /\ WatchPath(d) \in watched => WatchPath(d) \in watched']_vars

\* The requests seq and the sets d and f are those of one complete walk of
\* the directory top of tree fs: one mkdir for each directory below top, one
\* write with its content for each file below top, no other request, and
\* every such directory in d and file in f.
WalkOf(fs, top, seq, d, f) ==
    /\ \A q \in Paths :
          (IsUnder(top, q) /\ IsDir(fs, q)) =>
              /\ Cardinality({i \in 1..Len(seq) : seq[i].relative_path = RelPath(q)}) = 1
              /\ IndexOf(seq, MkDirReq(RelPath(q))) # {}
              /\ RelPath(q) \in d
    /\ \A q \in Paths :
          (IsUnder(top, q) /\ IsFile(fs, q)) =>
              /\ Cardinality({i \in 1..Len(seq) : seq[i].relative_path = RelPath(q)}) = 1
              /\ IndexOf(seq, WriteReq(RelPath(q), ReadFile(fs, q))) # {}
              /\ RelPath(q) \in f
    /\ \A i \in 1..Len(seq) :
          /\ seq[i].action \in {"mkdir", "write"}
          /\ \E q \in Paths :
                IsUnder(top, q) /\ Exists(fs, q) /\ seq[i].relative_path = RelPath(q)

\* The requests of the last handler but its final one.
Walked(seq) == SubSeq(seq, 1, Len(seq) - 1)

\* C17: the run of _replicate_directory the constructor makes on the root,
\* and the run the Added handler makes on a new directory, pass exactly one
\* mkdir for every directory below it, exactly one write with the file's
\* content for every file below it and nothing else, and leave every one of
\* those directories in dirs and files in files.
C17_WalkerCompleteness ==
    [][/\ (pc = "new" /\ pc' = "running") =>
             WalkOf(src, Root, Walked(sent'), watch_dirs', watch_files')
       /\ (HandledEv("added") /\ IsDir(src, EvPath)) =>
             WalkOf(src, EvPath, Walked(sent'), watch_dirs', watch_files')]_vars

\* The constructor walked a tree with a directory inside a directory and a
\* file inside another.
C17_Witness ==
    /\ Constructed
    /\ IsDir(src, <<NameA, NameA>>)
    /\ IsFile(src, <<NameAB, NameA>>)
    /\ Len(sent) = 5
    /\ watch_files = {RelPath(<<NameAB, NameA>>)}

\* The Added handler walked a new directory that held an entry.
C17_WitnessAdded ==
    /\ lastev.type = "added"
    /\ Len(sent) = 2
    /\ sent[2] = MkDirReq(RelPath(lastev.path))

\* C18: when handle_event handles a Removed event for path p it passes
\* exactly one request, the remove of p, and at the moment it passes it dirs,
\* files and the watches are already what they are when the handler returns:
\* p and the directories below it are out of dirs and have no watch, and p is
\* out of files.
C18_CleanupBeforeEmit ==
    [][HandledEv("removed") =>
        /\ sent' = <<RemoveReq(EvRel)>>
        /\ sentat' = Sets(watch_dirs', watch_files', watched')
        /\ \A d \in sentat'.dirs : ~IsPrefix(EvPath, WatchPath(d))
        /\ \A q \in sentat'.watched : ~IsPrefix(EvPath, q)
        /\ EvRel \notin sentat'.files]_vars

\* A Removed event for a directory in dirs has been handled: the directory
\* was taken out of dirs and the remove request passed.
C18_Witness ==
    /\ lastev.type = "removed"
    /\ RelPath(lastev.path) \in cleaned
    /\ sent = <<RemoveReq(RelPath(lastev.path))>>
    /\ RelPath(lastev.path) \notin sentat.dirs

\* C19 (as claimed): once the source is constructed, in every state, no path
\* string is in both dirs and files.
C19_FilesHoldOnlyFiles ==
    pc = "running" => watch_dirs \cap watch_files = {}

\* C20 (as claimed): handling a Modified event passes exactly one request, a
\* write to the event's path, and leaves dirs and files as they were.
C20_ModifiedUnconditional ==
    [][HandledEv("modified") =>
        /\ \E c \in Contents : sent' = <<WriteReq(EvRel, c)>>
        /\ watch_dirs' = watch_dirs
        /\ watch_files' = watch_files]_vars

\* C20 (amended): handling a Modified event for a path that is a file when
\* the handler reads it passes exactly one request, the write of the file's
\* current content, whatever the target holds; for a path that is no longer a
\* file it passes none. Either way dirs and files stay as they were.
C20_ModifiedOfFile ==
    [][HandledEv("modified") =>
        /\ IF IsFile(src, EvPath)
           THEN sent' = <<WriteReq(EvRel, ReadFile(src, EvPath))>> /\ ~raised'
           ELSE sent' = <<>>
        /\ watch_dirs' = watch_dirs
        /\ watch_files' = watch_files]_vars

\* A Modified event was handled whose write carried the content the target
\* already held.
C20_Witness ==
    /\ lastev.type = "modified"
    /\ Len(sent) = 1
    /\ sent[1].action = "write"
    /\ sent[1].relative_path = RelPath(lastev.path)
    /\ noop
    /\ ~raised

====
